---------------------------- MODULE Spec2Model ----------------------------
(***************************************************************************)
(* Type-ahead widget (app/components/type-ahead.tsx), its host page        *)
(* (routes/home.tsx) and the suggestion service                            *)
(* (app/routes/api-suggestions.tsx).                                       *)
(*                                                                         *)
(* Text is a sequence of one-character strings, so that trim, toLowerCase, *)
(* includes, encodeURIComponent and the URL decoding are computed, not     *)
(* assumed.  Time advances in ticks of 100 ms.                             *)
(***************************************************************************)
EXTENDS Integers, Sequences, FiniteSets, TLC

(***************************************************************************)
(* Bounds of the model.                                                    *)
(***************************************************************************)
\* longest q parameter the service is asked with
MaxQueryLen == 3
\* how many of the texts of TypedTextList are typed into the input
MaxTexts == 3

\* characters of the q parameters the service is asked with
QueryAlphabet == {"a", "p", "E", " "}
\* the texts typed into the input: empty, three matches, white space only,
\* white space to trim, no match, ...
TypedTextList ==
  << <<>>, <<"w">>, <<" ">>, <<"z">>, <<" ", "w">>, <<"w", " ">>,
     <<"w", "w">> >>

\* all texts over the alphabet S of length at most n
TextsUpTo(S, n) == UNION {[1..k -> S] : k \in 0..n}

Min(a, b) == IF a < b THEN a ELSE b

(***************************************************************************)
(* Text primitives of the JavaScript runtime, as the code uses them.       *)
(***************************************************************************)
UpperLetters ==
  <<"A", "B", "C", "D", "E", "F", "G", "H", "I", "J", "K", "L", "M",
    "N", "O", "P", "Q", "R", "S", "T", "U", "V", "W", "X", "Y", "Z">>

LowerLetters ==
  <<"a", "b", "c", "d", "e", "f", "g", "h", "i", "j", "k", "l", "m",
    "n", "o", "p", "q", "r", "s", "t", "u", "v", "w", "x", "y", "z">>

\* String.prototype.toLowerCase, one character
LowerChar(c) ==
  IF \E i \in 1..Len(UpperLetters) : UpperLetters[i] = c
    THEN LowerLetters[CHOOSE i \in 1..Len(UpperLetters) : UpperLetters[i] = c]
    ELSE c

\* String.prototype.toLowerCase
toLowerCase(s) == [i \in 1..Len(s) |-> LowerChar(s[i])]

\* the white space String.prototype.trim removes
WhiteSpace == {" "}

RECURSIVE trimStart(_)
trimStart(s) ==
  IF s # <<>> /\ Head(s) \in WhiteSpace THEN trimStart(Tail(s)) ELSE s

RECURSIVE trimEnd(_)
trimEnd(s) ==
  IF s # <<>> /\ s[Len(s)] \in WhiteSpace
    THEN trimEnd(SubSeq(s, 1, Len(s) - 1))
    ELSE s

\* String.prototype.trim
trim(s) == trimEnd(trimStart(s))

\* String.prototype.includes: a scan for the first position where needle starts
RECURSIVE includesFrom(_, _, _)
includesFrom(hay, needle, from) ==
  IF from + Len(needle) - 1 > Len(hay) THEN FALSE
  ELSE IF SubSeq(hay, from, from + Len(needle) - 1) = needle THEN TRUE
  ELSE includesFrom(hay, needle, from + 1)

includes(hay, needle) == includesFrom(hay, needle, 1)

\* encodeURIComponent: letters are kept, a space becomes %20
RECURSIVE encodeURIComponent(_)
encodeURIComponent(s) ==
  IF s = <<>> THEN <<>>
  ELSE (IF Head(s) = " " THEN <<"%", "2", "0">> ELSE <<Head(s)>>)
         \o encodeURIComponent(Tail(s))

\* URLSearchParams decoding of a parameter value: %20 and + are a space
RECURSIVE decodeParam(_)
decodeParam(s) ==
  IF s = <<>> THEN <<>>
  ELSE IF Len(s) >= 3 /\ SubSeq(s, 1, 3) = <<"%", "2", "0">>
    THEN <<" ">> \o decodeParam(SubSeq(s, 4, Len(s)))
  ELSE IF Head(s) = "+" THEN <<" ">> \o decodeParam(Tail(s))
  ELSE <<Head(s)>> \o decodeParam(Tail(s))

(***************************************************************************)
(* The suggestion service, app/routes/api-suggestions.tsx.                 *)
(***************************************************************************)
fruits ==
  <<
     [id |-> "apple", value |-> <<"A", "p", "p", "l", "e">>],
     [id |-> "banana", value |-> <<"B", "a", "n", "a", "n", "a">>],
     [id |-> "blackberry",
      value |-> <<"B", "l", "a", "c", "k", "b", "e", "r", "r", "y">>],
     [id |-> "blueberry",
      value |-> <<"B", "l", "u", "e", "b", "e", "r", "r", "y">>],
     [id |-> "dragonfruit",
      value |-> <<"D", "r", "a", "g", "o", "n", "f", "r", "u", "i", "t">>],
     [id |-> "grapefruit",
      value |-> <<"G", "r", "a", "p", "e", "f", "r", "u", "i", "t">>],
     [id |-> "kiwi", value |-> <<"K", "i", "w", "i">>],
     [id |-> "lemon", value |-> <<"L", "e", "m", "o", "n">>],
     [id |-> "lime", value |-> <<"L", "i", "m", "e">>],
     [id |-> "lychee", value |-> <<"L", "y", "c", "h", "e", "e">>],
     [id |-> "mango", value |-> <<"M", "a", "n", "g", "o">>],
     [id |-> "nectarine",
      value |-> <<"N", "e", "c", "t", "a", "r", "i", "n", "e">>],
     [id |-> "orange", value |-> <<"O", "r", "a", "n", "g", "e">>],
     [id |-> "papaya", value |-> <<"P", "a", "p", "a", "y", "a">>],
     [id |-> "passionfruit",
      value |-> <<"P", "a", "s", "s", "i", "o", "n", "f", "r", "u", "i", "t">>],
     [id |-> "peach", value |-> <<"P", "e", "a", "c", "h">>],
     [id |-> "pineapple",
      value |-> <<"P", "i", "n", "e", "a", "p", "p", "l", "e">>],
     [id |-> "raspberry",
      value |-> <<"R", "a", "s", "p", "b", "e", "r", "r", "y">>],
     [id |-> "strawberry",
      value |-> <<"S", "t", "r", "a", "w", "b", "e", "r", "r", "y">>],
     [id |-> "watermelon",
      value |-> <<"W", "a", "t", "e", "r", "m", "e", "l", "o", "n">>]
  >>

\* the cap of .slice(0, 10)
MaxSuggestions == 10

\* a request URL: whether it has a q parameter, and the parameter as sent
RequestUrl(hasQ, raw) == [hasQ |-> hasQ, q |-> raw]

\* url.searchParams.get("q")?.trim().toLowerCase() || ""
requestQuery(url) ==
  IF url.hasQ THEN toLowerCase(trim(decodeParam(url.q))) ELSE <<>>

\* the predicate of fruits.filter(...)
matchesNoLower(fruit, q) == includes(fruit.value, q)
matches(fruit, q) == includes(toLowerCase(fruit.value), q)

\* fruits.filter(...).slice(0, 10)
suggestionsFor(q) ==
  LET Test(fruit) == matches(fruit, q)
      found == SelectSeq(fruits, Test)
  IN  SubSeq(found, 1, Min(MaxSuggestions, Len(found)))

\* the loader without its empty-query guard
loaderNoGuard(url) ==
  [status |-> 200, contentType |-> "application/json",
   body |-> suggestionsFor(requestQuery(url))]

\* export async function loader({ request })
loader(url) ==
  IF requestQuery(url) = <<>>
    THEN [status |-> 200, contentType |-> "text/plain", body |-> <<>>]
    ELSE [status |-> 200, contentType |-> "application/json",
          body |-> suggestionsFor(requestQuery(url))]

(***************************************************************************)
(* State.                                                                  *)
(***************************************************************************)
VARIABLES
  request,        \* service: the URL of a request made to the endpoint
  response,       \* service: the loader's answer to it
  mounted,        \* the TypeAhead component is mounted
  hasFocus,       \* the <input> has the document's focus
  query,          \* useState("")       type-ahead.tsx:26
  isFocused,      \* useState(false)    type-ahead.tsx:25
  selectedIndex,  \* useState(-1)       type-ahead.tsx:27
  fetcherData,    \* fetcher.data: undefined, or the last payload
  fetcherState,   \* fetcher.state: "idle" or "loading"
  depsStale,      \* fetcher.data was assigned after the last render read it
  debounce,       \* pending timers of the debounce effect
  grace,          \* pending timers of onBlur, by the ticks they have left
  inflight,       \* requests of fetcher.load not answered yet
  ev,             \* the event handled by the last step
  calls,          \* the onSelect invocations of the last step
  issued,         \* the requests issued by the last step
  sinceKey,       \* ticks since the latest keystroke, capped at DebounceTicks
  runIssued,      \* requests issued since the current run of keystrokes began
  downs           \* ArrowDown presses since the latest response; -1 after
                  \* any other input

serviceVars == <<request, response>>

widgetVars ==
  <<mounted, hasFocus, query, isFocused, selectedIndex, fetcherData,
    fetcherState, depsStale, debounce, grace, inflight,
    ev, calls, issued, sinceKey, runIssued, downs>>

vars == <<serviceVars, widgetVars>>

\* setTimeout(..., 300) and setTimeout(..., 200), in ticks of 100 ms
DebounceTicks == 3
GraceTicks == 2

\* fetcher.data === undefined
Undefined == [defined |-> FALSE, items |-> <<>>]
Payload(items) == [defined |-> TRUE, items |-> items]

NoRequest == [hasQ |-> FALSE, q |-> <<"-">>]
NoResponse == [status |-> 0, contentType |-> "", body |-> <<>>]

\* an event: its type; the key of a handled key press, or what set the timer
\* of a timeout; the index of the entry a selection took; whether the handler
\* went past its guard; for a timeout, the loads in flight when it ran
Event(type, key, idx, handled) ==
  [type |-> type, key |-> key, idx |-> idx, handled |-> handled, found |-> 0]

\* the texts an input event can set
TypedTexts ==
  {TypedTextList[i] : i \in 1..Min(MaxTexts, Len(TypedTextList))}

\* the q parameters of direct requests
Requests ==
  {RequestUrl(FALSE, <<>>)}
    \cup {RequestUrl(TRUE, encodeURIComponent(t)) :
            t \in TextsUpTo(QueryAlphabet, MaxQueryLen)}

(***************************************************************************)
(* Rendering, type-ahead.tsx:134-155.                                      *)
(***************************************************************************)
\* a test of the text that never finds it empty
blankNever(text) == FALSE

\* !query.trim()
blank(text) == trim(text) = <<>>

\* fetcher.data?.length, as a condition
hasResults == fetcherData.defined /\ Len(fetcherData.items) > 0

\* isFocused && query.trim() && fetcher.data?.length
showsDropdown ==
  mounted /\ isFocused /\ ~blank(query) /\ hasResults

\* fetcher.state === "loading" ? <div>Loading...</div> : ...
showsLoading == showsDropdown /\ fetcherState = "loading"

\* the <ul> of suggestions drawn although a load is going on
showsListAlways == showsDropdown

\* ... : <ul>{fetcher.data.map(...)}</ul>
showsList == showsDropdown /\ fetcherState # "loading"

(***************************************************************************)
(* The pieces of the handlers.                                             *)
(***************************************************************************)
\* a debounce effect whose cleanup clears nothing
cleanupNothing(timers, oldQuery) == timers

\* return () => clearTimeout(timeout): the cleanup of the effect run that
\* captured oldQuery clears the timer that run set
cleanup(timers, oldQuery) == {t \in timers : t.q # oldQuery}

\* a timer whose callback reads the text of the render before the change
setTimeoutStale(timers, text, by) ==
  timers \cup {[q |-> query, left |-> DebounceTicks, by |-> by]}

\* setTimeout(() => fetcher.load(...query...), 300); by tells what set the
\* timer: "key" a keystroke, "rapid" a keystroke less than 300 ms after the
\* keystroke before it, "select" a selection
setTimeout(timers, text, by) ==
  timers \cup {[q |-> text, left |-> DebounceTicks, by |-> by]}

\* a load that leaves the earlier load of this fetcher running
loadNoAbort(pending, text) == Append(pending, encodeURIComponent(text))

\* fetcher.load(`/api/suggestions?q=${encodeURIComponent(query)}`): a fetcher
\* of useFetcher has one load at a time; react-router aborts the load it
\* still has in flight when a new one starts, and drops its answer
fetcherLoad(pending, text) == <<encodeURIComponent(text)>>

\* a selection that leaves the text of the input as it is
handleSelectKeepsText(suggestion) ==
  [query |-> query, isFocused |-> FALSE,
   selectedIndex |-> -1, calls |-> <<suggestion>>]

\* a selection that leaves the dropdown open
handleSelectStaysOpen(suggestion) ==
  [query |-> suggestion.value, isFocused |-> isFocused,
   selectedIndex |-> -1, calls |-> <<suggestion>>]

\* const handleSelect = (suggestion) => { ... }
handleSelect(suggestion) ==
  [query |-> suggestion.value, isFocused |-> FALSE,
   selectedIndex |-> -1, calls |-> <<suggestion>>]

\* ArrowDown that stops one past the last entry
arrowDownPastEnd(prev, len) == IF prev < len THEN prev + 1 ELSE prev

\* ArrowDown with the body of ArrowUp
arrowDownAsUp(prev, len) == IF prev > 0 THEN prev - 1 ELSE prev

\* case "ArrowDown": prev < fetcher.data!.length - 1 ? prev + 1 : prev
arrowDown(prev, len) == IF prev < len - 1 THEN prev + 1 ELSE prev

\* ArrowUp that leaves the first entry for no highlight
arrowUpToNone(prev) == IF prev >= 0 THEN prev - 1 ELSE prev

\* case "ArrowUp": prev > 0 ? prev - 1 : prev
arrowUp(prev) == IF prev > 0 THEN prev - 1 ELSE prev

\* Enter that always takes the first entry
enterIndexFirst(idx) == 0

\* case "Enter": the index of the entry handed to handleSelect
enterIndex(idx) == IF idx >= 0 THEN idx ELSE 0

\* Escape that also clears the text
escapeClears ==
  [query |-> <<>>, isFocused |-> FALSE, selectedIndex |-> -1, calls |-> <<>>]

\* case "Escape": setIsFocused(false); setSelectedIndex(-1)
escape ==
  [query |-> query, isFocused |-> FALSE, selectedIndex |-> -1, calls |-> <<>>]

\* if (!query.trim() || !fetcher.data?.length) return;
keyboardActive == ~blank(query) /\ hasResults

(***************************************************************************)
(* A commit of React after a handler left the state at (nq, nf, ni): the   *)
(* render, then the debounce effect (deps [query]), then the reset effect  *)
(* (deps [fetcher.data], compared when the component renders).             *)
(***************************************************************************)
Commit(nq, nf, ni, by) ==
  LET rerender == nq # query \/ nf # isFocused \/ ni # selectedIndex
  IN  /\ query' = nq
      /\ isFocused' = nf
      /\ selectedIndex' = IF rerender /\ depsStale THEN -1 ELSE ni
      /\ IF nq # query
           THEN /\ debounce' =
                     IF blank(nq) THEN cleanup(debounce, query)
                     ELSE setTimeout(cleanup(debounce, query), nq, by)
                /\ fetcherData' = IF blank(nq) THEN Undefined ELSE fetcherData
                /\ depsStale' = (blank(nq) /\ fetcherData.defined)
           ELSE /\ UNCHANGED <<debounce, fetcherData>>
                /\ depsStale' = IF rerender THEN FALSE ELSE depsStale

\* inputRef.current?.blur(), and onBlur={() => setTimeout(..., 200)}
blurTimers == grace \cup {GraceTicks}

(***************************************************************************)
(* Initial state: the component is mounted, its first effects have run.    *)
(***************************************************************************)
WidgetInit ==
  /\ mounted = TRUE
  /\ hasFocus = FALSE
  /\ query = <<>>
  /\ isFocused = FALSE
  /\ selectedIndex = -1
  /\ fetcherData = Undefined
  /\ fetcherState = "idle"
  /\ depsStale = FALSE
  /\ debounce = {}
  /\ grace = {}
  /\ inflight = <<>>
  /\ ev = Event("init", "", -1, FALSE)
  /\ calls = <<>>
  /\ issued = <<>>
  /\ sinceKey = DebounceTicks
  /\ runIssued = 0
  /\ downs = -1

Init ==
  /\ request = NoRequest
  /\ response = NoResponse
  /\ WidgetInit

\* the variables an event that issues and selects nothing leaves alone
fixed == <<serviceVars, mounted, fetcherState, inflight>>
runVars == <<sinceKey, runIssued>>

\* the step invokes no callback and issues no request
Quiet == calls' = <<>> /\ issued' = <<>>

(***************************************************************************)
(* Events of the widget.                                                   *)
(***************************************************************************)
\* onChange={(e) => setQuery(e.target.value)}
Change(text) ==
  /\ mounted /\ hasFocus
  /\ text # query
  /\ Commit(text, isFocused, selectedIndex,
            IF sinceKey < DebounceTicks THEN "rapid" ELSE "key")
  /\ ev' = Event("change", "", -1, TRUE)
  /\ Quiet
  /\ sinceKey' = 0
  /\ runIssued' = IF sinceKey < DebounceTicks THEN runIssued ELSE 0
  /\ downs' = -1
  /\ UNCHANGED <<fixed, hasFocus, grace>>

\* onFocus={() => setIsFocused(true)}
Focus ==
  /\ mounted /\ ~hasFocus
  /\ hasFocus' = TRUE
  /\ Commit(query, TRUE, selectedIndex, "key")
  /\ ev' = Event("focus", "", -1, TRUE)
  /\ Quiet
  /\ downs' = -1
  /\ UNCHANGED <<fixed, grace, runVars>>

\* the input loses the focus:
\* onBlur={() => setTimeout(() => setIsFocused(false), 200)}
Blur ==
  /\ mounted /\ hasFocus
  /\ hasFocus' = FALSE
  /\ grace' = blurTimers
  /\ ev' = Event("blur", "", -1, TRUE)
  /\ Quiet
  /\ downs' = -1
  /\ UNCHANGED <<fixed, query, isFocused, selectedIndex, fetcherData,
                 depsStale, debounce, runVars>>

\* handleKeyDown left by its first line
KeyIgnored ==
  /\ ev' = Event("keydown", "", -1, FALSE)
  /\ Quiet
  /\ UNCHANGED <<fixed, hasFocus, query, isFocused, selectedIndex,
                 fetcherData, depsStale, debounce, grace, runVars>>

\* a selection changes the text without a keystroke: the run of keystrokes
\* ends
SelectionEndsRun ==
  /\ sinceKey' = DebounceTicks
  /\ runIssued' = 0

\* onKeyDown={handleKeyDown}, key ArrowDown
KeyArrowDown ==
  /\ mounted /\ hasFocus
  /\ downs' = IF downs >= 0 THEN Min(downs + 1, 3) ELSE -1
  /\ IF keyboardActive
       THEN /\ Commit(query, isFocused,
                      arrowDown(selectedIndex, Len(fetcherData.items)), "key")
            /\ ev' = Event("keydown", "ArrowDown", -1, TRUE)
            /\ Quiet
            /\ UNCHANGED <<fixed, hasFocus, grace, runVars>>
       ELSE KeyIgnored

\* onKeyDown={handleKeyDown}, key ArrowUp
KeyArrowUp ==
  /\ mounted /\ hasFocus
  /\ downs' = -1
  /\ IF keyboardActive
       THEN /\ Commit(query, isFocused, arrowUp(selectedIndex), "key")
            /\ ev' = Event("keydown", "ArrowUp", -1, TRUE)
            /\ Quiet
            /\ UNCHANGED <<fixed, hasFocus, grace, runVars>>
       ELSE KeyIgnored

\* handleSelect(suggestion) and the commit that follows it
Select(suggestion) ==
  LET s == handleSelect(suggestion)
  IN  /\ Commit(s.query, s.isFocused, s.selectedIndex, "select")
      /\ calls' = s.calls
      /\ issued' = <<>>
      /\ IF s.query # query THEN SelectionEndsRun ELSE UNCHANGED runVars

\* onKeyDown={handleKeyDown}, key Enter.  fetcher.data[selectedIndex] of an
\* index past the end is undefined, and handleSelect(undefined) throws on
\* suggestion.value before it sets anything.
KeyEnter ==
  /\ mounted /\ hasFocus
  /\ downs' = -1
  /\ IF keyboardActive
       THEN LET i == enterIndex(selectedIndex)
            IN  IF i < Len(fetcherData.items)
                  THEN /\ Select(fetcherData.items[i + 1])
                       /\ hasFocus' = FALSE
                       /\ grace' = blurTimers
                       /\ ev' = Event("keydown", "Enter", i, TRUE)
                       /\ UNCHANGED fixed
                  ELSE /\ ev' = Event("throw", "Enter", i, TRUE)
                       /\ Quiet
                       /\ UNCHANGED <<fixed, hasFocus, query, isFocused,
                                      selectedIndex, fetcherData, depsStale,
                                      debounce, grace, runVars>>
       ELSE KeyIgnored

\* onKeyDown={handleKeyDown}, key Escape
KeyEscape ==
  /\ mounted /\ hasFocus
  /\ downs' = -1
  /\ IF keyboardActive
       THEN LET s == escape
            IN  /\ Commit(s.query, s.isFocused, s.selectedIndex, "key")
                /\ calls' = s.calls
                /\ issued' = <<>>
                /\ hasFocus' = FALSE
                /\ grace' = blurTimers
                /\ ev' = Event("keydown", "Escape", -1, TRUE)
                /\ UNCHANGED <<fixed, runVars>>
       ELSE KeyIgnored

\* <li onClick={() => handleSelect(suggestion)}>: a pointer click on entry i
\* of the drawn list; the pointer going down on the entry took the focus off
\* the input before (Blur)
Click(i) ==
  /\ mounted /\ ~hasFocus
  /\ showsList
  /\ i \in 0..(Len(fetcherData.items) - 1)
  /\ Select(fetcherData.items[i + 1])
  /\ ev' = Event("click", "", i, TRUE)
  /\ downs' = -1
  /\ UNCHANGED <<fixed, hasFocus, grace>>

\* the callback of the debounce effect's setTimeout runs; the fetcher going
\* to "loading" renders the component
DebounceFires ==
  /\ \E t \in debounce :
       /\ t.left = 0
       /\ debounce' = debounce \ {t}
       /\ inflight' = fetcherLoad(inflight, t.q)
       /\ issued' = <<encodeURIComponent(t.q)>>
       /\ ev' = [Event("timeout", t.by, -1, TRUE)
                   EXCEPT !.found = Len(inflight)]
  /\ fetcherState' = "loading"
  /\ selectedIndex' = IF depsStale THEN -1 ELSE selectedIndex
  /\ depsStale' = FALSE
  /\ runIssued' = Min(runIssued + 1, 2)
  /\ calls' = <<>>
  /\ UNCHANGED <<serviceVars, mounted, hasFocus, query, isFocused,
                 fetcherData, grace, sinceKey, downs>>

\* the callback of onBlur's setTimeout runs: setIsFocused(false)
GraceFires ==
  /\ 0 \in grace
  /\ grace' = grace \ {0}
  /\ IF mounted
       THEN Commit(query, FALSE, selectedIndex, "key")
       ELSE UNCHANGED <<query, isFocused, selectedIndex, fetcherData,
                        depsStale, debounce>>
  /\ ev' = Event("graceTimeout", "", -1, TRUE)
  /\ Quiet
  /\ UNCHANGED <<fixed, hasFocus, runVars, downs>>

\* an arrival that stores the answer only when it was asked for the text the
\* input holds now
ResponseArrivesIfCurrent ==
  /\ \E k \in 1..Len(inflight) :
       /\ inflight' = [j \in 1..(Len(inflight) - 1) |->
                         IF j < k THEN inflight[j] ELSE inflight[j + 1]]
       /\ IF mounted /\ inflight[k] = encodeURIComponent(query)
            THEN /\ fetcherData' =
                      Payload(loader(RequestUrl(TRUE, inflight[k])).body)
                 /\ selectedIndex' = -1
                 /\ depsStale' = FALSE
                 /\ downs' = 0
            ELSE UNCHANGED <<fetcherData, selectedIndex, depsStale, downs>>
       /\ fetcherState' = IF mounted THEN "idle" ELSE fetcherState
  /\ ev' = Event("response", "", -1, TRUE)
  /\ Quiet
  /\ UNCHANGED <<serviceVars, mounted, hasFocus, query, isFocused, debounce,
                 grace, runVars>>

\* the answer to a request in flight arrives: the service computes it, the
\* fetcher stores it and goes idle, the component renders with the new
\* fetcher.data and the reset effect runs
ResponseArrives ==
  /\ \E k \in 1..Len(inflight) :
       /\ inflight' = [j \in 1..(Len(inflight) - 1) |->
                         IF j < k THEN inflight[j] ELSE inflight[j + 1]]
       /\ IF mounted
            THEN /\ fetcherData' =
                      Payload(loader(RequestUrl(TRUE, inflight[k])).body)
                 /\ fetcherState' = "idle"
                 /\ selectedIndex' = -1
                 /\ depsStale' = FALSE
                 /\ downs' = 0
            ELSE UNCHANGED <<fetcherData, fetcherState, selectedIndex,
                             depsStale, downs>>
  /\ ev' = Event("response", "", -1, TRUE)
  /\ Quiet
  /\ UNCHANGED <<serviceVars, mounted, hasFocus, query, isFocused, debounce,
                 grace, runVars>>

\* 100 ms pass; a timer that is due runs before more time passes
Tick ==
  /\ \A t \in debounce : t.left > 0
  /\ 0 \notin grace
  /\ debounce' = {[t EXCEPT !.left = @ - 1] : t \in debounce}
  /\ grace' = {g - 1 : g \in grace}
  /\ sinceKey' = Min(sinceKey + 1, DebounceTicks)
  /\ ev' = Event("tick", "", -1, TRUE)
  /\ Quiet
  /\ UNCHANGED <<fixed, hasFocus, query, isFocused, selectedIndex,
                 fetcherData, depsStale, runIssued, downs>>

\* the component unmounts: the cleanup of the debounce effect runs
Unmount ==
  /\ mounted
  /\ mounted' = FALSE
  /\ hasFocus' = FALSE
  /\ debounce' = cleanup(debounce, query)
  /\ ev' = Event("unmount", "", -1, TRUE)
  /\ Quiet
  /\ downs' = -1
  /\ UNCHANGED <<serviceVars, query, isFocused, selectedIndex, fetcherData,
                 fetcherState, depsStale, grace, inflight, runVars>>

Next ==
  \/ \E text \in TypedTexts : Change(text)
  \/ Focus
  \/ Blur
  \/ KeyArrowDown
  \/ KeyArrowUp
  \/ KeyEnter
  \/ KeyEscape
  \/ \E i \in 0..(MaxSuggestions - 1) : Click(i)
  \/ DebounceFires
  \/ GraceFires
  \/ ResponseArrives
  \/ Tick
  \/ Unmount

Spec == Init /\ [][Next]_vars

(***************************************************************************)
(* The service asked directly: any request, answered by the loader.        *)
(***************************************************************************)
LoaderInit ==
  /\ request \in Requests
  /\ response = NoResponse
  /\ WidgetInit

Serve ==
  /\ response = NoResponse
  /\ response' = loader(request)
  /\ UNCHANGED <<request, widgetVars>>

LoaderNext == Serve

SpecLoader == LoaderInit /\ [][LoaderNext]_vars

(***************************************************************************)
(* Properties.                                                             *)
(***************************************************************************)
\* needle occurs in hay at some offset
IsSubstring(needle, hay) ==
  \E a \in 0..(Len(hay) - Len(needle)) :
    \A k \in 1..Len(needle) : hay[a + k] = needle[k]

\* the places of the source list whose lower-cased value contains q
MatchingPlaces(q) ==
  {i \in 1..Len(fruits) : IsSubstring(q, toLowerCase(fruits[i].value))}

\* the text is empty or white space only
AllWhiteSpace(text) == \A i \in 1..Len(text) : text[i] \in WhiteSpace

\* the last step was a handled press of this key
Pressed(key) == ev.type = "keydown" /\ ev.key = key /\ ev.handled

\* C1: for a query that is non-empty once trimmed and lower-cased, the answer
\* is the first 10 (or all, if fewer) entries of the source list whose
\* lower-cased value contains it, in source order: its k-th entry is the
\* k-th matching entry of the list.
C1_FilterFirstTen ==
  (response # NoResponse /\ requestQuery(request) # <<>>) =>
    LET M == MatchingPlaces(requestQuery(request))
        n == IF Cardinality(M) < 10 THEN Cardinality(M) ELSE 10
    IN  /\ response.status = 200
        /\ Len(response.body) = n
        /\ \A k \in 1..n :
             \E i \in M : /\ Cardinality({j \in M : j < i}) = k - 1
                          /\ response.body[k] = fruits[i]

\* C1 witness: a query with more than 10 matches was answered
C1_Witness ==
  /\ response # NoResponse
  /\ requestQuery(request) # <<>>
  /\ Cardinality(MatchingPlaces(requestQuery(request))) > 10
  /\ Len(response.body) = 10

\* C2: a request whose q parameter is missing, empty or white space only is
\* answered with status 200 and the empty sequence.
C2_EmptyQuery ==
  (response # NoResponse
     /\ (~request.hasQ \/ AllWhiteSpace(decodeParam(request.q)))) =>
    /\ response.status = 200
    /\ response.body = <<>>

\* C2 witness: a q parameter of white space only was answered
C2_Witness ==
  /\ response # NoResponse
  /\ request.hasQ
  /\ Len(request.q) > 0
  /\ AllWhiteSpace(decodeParam(request.q))

\* C3 as stated: every keystroke that changes the text leaves a fresh 300 ms
\* timer pending.
C3_Original ==
  ev.type = "change" =>
    \E by \in {"key", "rapid"} :
      debounce = {[q |-> query, left |-> DebounceTicks, by |-> by]}

\* C3, amended: at most one debounce timer is pending and it is bound to the
\* current text; a keystroke that changes the text cancels the pending timer
\* and, unless the new text is empty once trimmed, starts a new 300 ms timer;
\* a run of keystrokes less than 300 ms apart issues at most one request, and
\* a request issued by a keystroke's timer carries the current text.
C3_Debounce ==
  /\ Cardinality(debounce) <= 1
  /\ \A t \in debounce : t.q = query
  /\ ev.type = "change" =>
       IF blank(query) THEN debounce = {}
       ELSE \E by \in {"key", "rapid"} :
              debounce = {[q |-> query, left |-> DebounceTicks, by |-> by]}
  /\ runIssued <= 1
  /\ (ev.type = "timeout" /\ ev.key \in {"key", "rapid"}) =>
       issued = <<encodeURIComponent(query)>>

\* C3 witness: a run of two or more keystrokes ended in its one request
C3_Witness ==
  /\ ev.type = "timeout" /\ ev.key = "rapid"
  /\ runIssued = 1
  /\ issued = <<encodeURIComponent(query)>>

C5_Select ==
  (ev.type = "click" \/ Pressed("Enter")) =>
    /\ fetcherData.defined
    /\ ev.idx \in 0..(Len(fetcherData.items) - 1)
    /\ LET entry == fetcherData.items[ev.idx + 1]
       IN  /\ query = entry.value
           /\ ~isFocused
           /\ selectedIndex = -1
           /\ calls = <<entry>>

\* C5 witness: the third entry was clicked
C5_Witness ==
  /\ ev.type = "click"
  /\ ev.idx = 2
  /\ calls = <<fetcherData.items[3]>>

\* C6 as stated: the highlight is none or an index of the current results,
\* and it is none after a response has arrived.
C6_Original ==
  /\ \/ selectedIndex = -1
     \/ /\ fetcherData.defined
        /\ selectedIndex \in 0..(Len(fetcherData.items) - 1)
  /\ (ev.type = "response" /\ mounted) => selectedIndex = -1

\* C7: Enter, pressed with a text and results, selects the highlighted entry,
\* or the first entry when none is highlighted, invokes the callback with it,
\* closes the dropdown and takes the focus off the input.
C7_Enter ==
  [][(ev'.key = "Enter" /\ keyboardActive) =>
       LET entry == IF selectedIndex >= 0
                      THEN fetcherData.items[selectedIndex + 1]
                      ELSE fetcherData.items[1]
       IN  /\ selectedIndex < Len(fetcherData.items)
           /\ ev'.type = "keydown"
           /\ calls' = <<entry>>
           /\ query' = entry.value
           /\ ~isFocused'
           /\ ~hasFocus']_vars

\* C7 witness: Enter took the highlighted second entry
C7_Witness ==
  /\ Pressed("Enter")
  /\ ev.idx = 1
  /\ calls = <<fetcherData.items[2]>>
  /\ ~isFocused /\ ~hasFocus

\* C8 as stated: two presses of ArrowDown after 3 results arrived leave the
\* highlight at 2.
C8_Original ==
  (downs = 2 /\ Len(fetcherData.items) = 3 /\ ~blank(query)) =>
    selectedIndex = 2

\* C8, amended: two presses of ArrowDown after 3 results arrived, the text
\* being non-empty once trimmed, leave the highlight at 1, the second entry.
C8_TwoArrowDowns ==
  (downs = 2 /\ Len(fetcherData.items) = 3 /\ ~blank(query)) =>
    selectedIndex = 1

\* C8 witness: ArrowDown was pressed twice on 3 fresh results
C8_Witness ==
  /\ downs = 2
  /\ Len(fetcherData.items) = 3
  /\ ~blank(query)
  /\ selectedIndex = 1

\* C9: Escape, pressed with a text and results, closes the dropdown, clears
\* the highlight and takes the focus off the input; the text and the results
\* stay, and onSelect is not invoked.
C9_Escape ==
  [][(ev'.key = "Escape" /\ keyboardActive) =>
       /\ ~isFocused'
       /\ selectedIndex' = -1
       /\ ~hasFocus'
       /\ query' = query
       /\ fetcherData' = fetcherData
       /\ calls' = <<>>]_vars

\* C9 witness: Escape was handled with a text and results stored
C9_Witness ==
  /\ Pressed("Escape")
  /\ keyboardActive
  /\ ~isFocused /\ ~hasFocus
  /\ selectedIndex = -1

\* C10 as stated: while a request is outstanding the loading indicator is
\* shown.
C10_Original == (mounted /\ inflight # <<>>) => showsLoading

\* C10, amended: while a request is outstanding no suggestion entry is drawn
\* and none can be clicked; the loading indicator stands in place of the list
\* when the dropdown is visible (focused, a text, stored results), and
\* nothing is drawn when it is not.
C10_Loading ==
  inflight # <<>> =>
    /\ fetcherState = "loading" \/ ~mounted
    /\ ~showsList
    /\ showsDropdown <=> showsLoading
    /\ ~ENABLED (\E i \in 0..(MaxSuggestions - 1) : Click(i))

\* C10 witness: the loading indicator is shown over stored results
C10_Witness ==
  /\ inflight # <<>>
  /\ showsLoading
  /\ Len(fetcherData.items) = 3


\* the text sent by a request, as the service reads it
sentText(req) == decodeParam(req)

\* C11: a step that changes the text to one that is empty once trimmed clears
\* the stored results in that step, leaves no debounce timer pending and
\* issues no request; no timer is ever pending for such a text and no request
\* is ever issued for one.
C11_EmptyClears ==
  [][/\ (query' # query /\ AllWhiteSpace(query')) =>
          /\ fetcherData' = Undefined
          /\ debounce' = {}
          /\ issued' = <<>>
     /\ \A t \in debounce' : ~AllWhiteSpace(t.q)
     /\ \A k \in 1..Len(issued') : ~AllWhiteSpace(sentText(issued'[k]))]_vars

\* C11 witness: the text was emptied while results were stored, and they are
\* gone
C11_Witness ==
  /\ ev.type = "change"
  /\ AllWhiteSpace(query)
  /\ depsStale
  /\ fetcherData = Undefined
  /\ debounce = {}

\* C12: once the component is unmounted no debounce timer is pending and no
\* request is issued, whatever was typed before.
C12_Teardown == ~mounted => (debounce = {} /\ issued = <<>>)

\* C12 witness: the component was unmounted 200 ms after a keystroke that had
\* set a timer
C12_Witness ==
  /\ ~mounted
  /\ ev.type = "unmount"
  /\ sinceKey = 2
  /\ ~blank(query)
  /\ debounce = {}

\* C13: the request GET /api/suggestions?q=ap is answered with Apple and
\* Papaya, the two entries of the example in the loader's documentation.
C13_Original ==
  (response # NoResponse /\ request = RequestUrl(TRUE, <<"a", "p">>)) =>
    response.body =
      << [id |-> "apple", value |-> <<"A", "p", "p", "l", "e">>],
         [id |-> "papaya", value |-> <<"P", "a", "p", "a", "y", "a">>] >>

\* C14: with a text and results, a handled ArrowDown adds one to the highlight
\* unless it is at the last index, where it stays; a handled ArrowUp takes one
\* off unless it is 0 or none, where it stays.  Neither wraps, and the
\* highlight they leave is none or an index of the results.
C14_Arrows ==
  [][LET last == Len(fetcherData.items) - 1
     IN  /\ (ev'.key = "ArrowDown" /\ keyboardActive) =>
              /\ selectedIndex' =
                   IF selectedIndex = last THEN selectedIndex
                   ELSE selectedIndex + 1
              /\ selectedIndex' \in 0..last
         /\ (ev'.key = "ArrowUp" /\ keyboardActive) =>
              /\ selectedIndex' =
                   IF selectedIndex \in {0, -1} THEN selectedIndex
                   ELSE selectedIndex - 1
              /\ selectedIndex' \in -1..last]_vars

\* C14 witness: a second ArrowDown on a single result left the highlight on it
C14_Witness ==
  /\ Pressed("ArrowDown")
  /\ downs = 2
  /\ Len(fetcherData.items) = 1
  /\ selectedIndex = 0

C16_Original ==
  [][/\ ev'.type = "blur" => isFocused' = isFocused
     /\ (/\ mounted /\ ~hasFocus /\ isFocused /\ grace # {}
         /\ ev'.type # "click"
         /\ ~(ev'.type = "graceTimeout" /\ grace = {0})) => isFocused'
     /\ ev'.type = "click" =>
          /\ ~hasFocus /\ grace # {}
          /\ calls' = <<fetcherData.items[ev'.idx + 1]>>]_vars

\* C17: a focus gain sets the focused flag, and while the input keeps the
\* focus the flag stays on: no timer of an earlier blur turns it off.
C17_Original ==
  [][/\ ev'.type = "focus" => isFocused'
     /\ (mounted /\ hasFocus /\ isFocused /\ hasFocus') => isFocused']_vars

(***************************************************************************)
(* The widget with its timers running: time passes, and a callback that is *)
(* due runs (the browser's event loop runs a due timer's callback).        *)
(***************************************************************************)
\* a step of the clock: 100 ms pass, or a callback that is due runs; one of
\* them is possible in every state
TimerStep == Tick \/ DebounceFires \/ GraceFires

TimerFairness == WF_vars(TimerStep)

SpecLive == Init /\ [][Next]_vars /\ TimerFairness

\* a debounce timer runs down: it was set at least 100 ms ago
TimerRunning == mounted /\ \E t \in debounce : t.left < DebounceTicks

\* the text changed since: a change to a text that is empty once trimmed
\* leaves it so, any other change leaves a timer with its full 300 ms
TextChangedSince ==
  blank(query) \/ \E t \in debounce : t.left = DebounceTicks

\* C18: once the text has changed to one that is non-empty when trimmed, then
\* unless the text changes again or the component is unmounted, a request is
\* issued for it in the end, by a step that issues that one request, carrying
\* the text the input holds at that step, and leaves no timer behind to issue
\* another.
C18_EventuallyIssued ==
  /\ [](ev.type = "timeout" =>
          (issued = <<encodeURIComponent(query)>> /\ debounce = {}))
  /\ (mounted /\ debounce # {}) ~> (TimerRunning \/ debounce = {} \/ ~mounted)
  /\ TimerRunning
       ~> \/ (ev.type = "timeout" /\ issued = <<encodeURIComponent(query)>>)
          \/ TextChangedSince
          \/ ~mounted

\* C18 witness: the request of a keystroke's timer was issued with the text
\* still in the input
C18_Witness ==
  /\ ev.type = "timeout"
  /\ ev.key = "key"
  /\ sinceKey = DebounceTicks
  /\ issued = <<encodeURIComponent(query)>>
  /\ debounce = {}

\* C19: a step that invokes onSelect invokes it once, with an entry of the
\* results stored when it runs: the entry at the index the selection took,
\* which is within the results; no selection is attempted on an entry that
\* is not there.
C19_SelectsStoredEntry ==
  [][/\ calls' # <<>> =>
          /\ Len(calls') = 1
          /\ ev'.type \in {"click", "keydown"}
          /\ fetcherData.defined
          /\ ev'.idx \in 0..(Len(fetcherData.items) - 1)
          /\ calls'[1] = fetcherData.items[ev'.idx + 1]
          /\ fetcherData' = fetcherData
     /\ ev'.type # "throw"]_vars

\* C19 witness: Enter took the last of three entries, highlighted by the
\* arrow keys
C19_Witness ==
  /\ Pressed("Enter")
  /\ Len(fetcherData.items) = 3
  /\ ev.idx = 2
  /\ calls = <<fetcherData.items[3]>>

\* C20: a selection of an entry whose value is not the text of the input
\* sets the text and, like a keystroke, leaves the one debounce timer fresh
\* (300 ms) and bound to the value, the dropdown closed and nothing issued
\* yet; a selection of an entry whose value is the text leaves the timers
\* alone and issues nothing.  The timer of a selection, when it runs 300 ms
\* later, issues one request that carries the text, the selected value, and
\* the answer to the request for the text replaces the stored results though
\* the dropdown is closed.
C20_SelectionRequests ==
  [][/\ calls' # <<>> =>
          /\ issued' = <<>>
          /\ query' = calls'[1].value
          /\ ~isFocused'
          /\ IF calls'[1].value # query
               THEN debounce' =
                      {[q |-> calls'[1].value, left |-> DebounceTicks,
                        by |-> "select"]}
               ELSE debounce' = debounce
     /\ (ev'.type = "timeout" /\ ev'.key = "select") =>
          /\ debounce = {[q |-> query, left |-> 0, by |-> "select"]}
          /\ \E i \in 1..Len(fruits) : query = fruits[i].value
          /\ issued' = <<encodeURIComponent(query)>>
          /\ inflight' = issued'
          /\ debounce' = {}
     /\ (/\ ev'.type = "response" /\ mounted
         /\ inflight = <<encodeURIComponent(query)>>) =>
          fetcherData' = Payload(suggestionsFor(toLowerCase(trim(query))))]_vars

\* C20 witness: the request of a selection's timer was issued with the
\* dropdown closed
C20_Witness ==
  /\ ev.type = "timeout"
  /\ ev.key = "select"
  /\ ~isFocused
  /\ query = <<"K", "i", "w", "i">>
  /\ issued = <<encodeURIComponent(query)>>
  /\ Len(fetcherData.items) = 3
=============================================================================
